---- MODULE Spec2Model ----
(***************************************************************************)
(* A model of UrbanRay3D's process_geojson.py: the height resolver         *)
(* (get_building_height), the geometry flattener (process_coordinates)     *)
(* and the load / transform / write / preview pipeline (process_geojson).  *)
(*                                                                         *)
(* JSON values are tagged records, so that the code's isinstance tests,    *)
(* its indexing and its float() conversions are computed and can fail the  *)
(* way they do in Python.  A Python exception is an outcome with ok=FALSE  *)
(* and the exception's type in err.                                        *)
(***************************************************************************)
EXTENDS Integers, Sequences, FiniteSets, TLC

(***************************************************************************)
(* Bounds of the input documents.                                          *)
(***************************************************************************)
MaxRingLen == 2
MaxPolys == 2
MaxFeatures == 2

(***************************************************************************)
(* Python floats.  A finite float is the exact decimal num/den (den a      *)
(* power of ten, trailing zeros removed); the inputs below are integers    *)
(* and halves, on which float() and the product by 3.0 are exact.          *)
(***************************************************************************)
RECURSIVE Normalize(_, _)
Normalize(num, den) ==
    IF den > 1 /\ num % 10 = 0 THEN Normalize(num \div 10, den \div 10)
    ELSE [t |-> "fin", num |-> num, den |-> den]

Float(num, den) == Normalize(num, den)
NaN == [t |-> "nan", num |-> 0, den |-> 1]
Infinity == [t |-> "inf", num |-> 1, den |-> 1]
Unset == [t |-> "unset", num |-> 0, den |-> 1]

\* levels * 3.0 (line 41) and the default of line 46
LevelHeight == 3
DefaultHeight == 3

TimesLevelHeight(f) ==
    IF f.t = "fin" THEN Float(f.num * LevelHeight, f.den) ELSE f

(***************************************************************************)
(* Outcomes of a call: a value, or a raised exception.                     *)
(***************************************************************************)
Ok(val) == [ok |-> TRUE, err |-> "none", val |-> val]
Raise(err) == [ok |-> FALSE, err |-> err, val |-> Unset]

(***************************************************************************)
(* Attribute values, as json.load produces them.                           *)
(*   int   : a Python int n that a float can hold                          *)
(*   bigint: a Python int beyond the float range (a JSON integer of more   *)
(*           than 308 digits)                                              *)
(*   real  : a Python float n/d                                            *)
(*   bool, null, list: True/False, None, a list                            *)
(*   str   : a string, s its characters                                    *)
(***************************************************************************)
IntV(n) == [k |-> "int", n |-> n, d |-> 1, s |-> <<>>]
BigIntV == [k |-> "bigint", n |-> 1, d |-> 1, s |-> <<>>]
RealV(n, d) == [k |-> "real", n |-> n, d |-> d, s |-> <<>>]
BoolV(b) == [k |-> "bool", n |-> IF b THEN 1 ELSE 0, d |-> 1, s |-> <<>>]
NullV == [k |-> "null", n |-> 0, d |-> 1, s |-> <<>>]
ListV == [k |-> "list", n |-> 0, d |-> 1, s |-> <<>>]
StrV(s) == [k |-> "str", n |-> 0, d |-> 1, s |-> s]

(***************************************************************************)
(* float(str): surrounding whitespace is stripped, then an optional sign,  *)
(* then "nan", "inf", "infinity" or a decimal numeral.  Exponents,         *)
(* underscores and upper case do not occur in the inputs and are rejected. *)
(***************************************************************************)
DigitChars == <<"0", "1", "2", "3", "4", "5", "6", "7", "8", "9">>
IsDigit(c) == \E i \in 1..10 : DigitChars[i] = c
DigitOf(c) == (CHOOSE i \in 1..10 : DigitChars[i] = c) - 1

RECURSIVE StripLeft(_)
StripLeft(s) ==
    IF s # <<>> /\ Head(s) = " " THEN StripLeft(Tail(s)) ELSE s

RECURSIVE StripRight(_)
StripRight(s) ==
    IF s # <<>> /\ s[Len(s)] = " " THEN StripRight(SubSeq(s, 1, Len(s) - 1)) ELSE s

Strip(s) == StripRight(StripLeft(s))

RECURSIVE DigitsValue(_)
DigitsValue(s) ==
    IF s = <<>> THEN 0
    ELSE DigitsValue(SubSeq(s, 1, Len(s) - 1)) * 10 + DigitOf(s[Len(s)])

RECURSIVE PowerOfTen(_)
PowerOfTen(k) == IF k = 0 THEN 1 ELSE 10 * PowerOfTen(k - 1)

DotPositions(s) == {i \in 1..Len(s) : s[i] = "."}

\* an unsigned decimal numeral: digits, with at most one "." and a digit on
\* one side of it at least
IsDecimal(s) ==
    /\ s # <<>>
    /\ Cardinality(DotPositions(s)) <= 1
    /\ \A i \in 1..Len(s) : IsDigit(s[i]) \/ s[i] = "."
    /\ \E i \in 1..Len(s) : IsDigit(s[i])

DecimalValue(s) ==
    IF DotPositions(s) = {} THEN Float(DigitsValue(s), 1)
    ELSE LET p == CHOOSE i \in DotPositions(s) : TRUE
             whole == SubSeq(s, 1, p - 1)
             frac == SubSeq(s, p + 1, Len(s))
         IN  Float(DigitsValue(whole \o frac), PowerOfTen(Len(frac)))

Negate(f) == [f EXCEPT !.num = 0 - f.num]

ParseFloat(s) ==
    LET body == Strip(s)
        signed == body # <<>> /\ Head(body) \in {"+", "-"}
        neg == body # <<>> /\ Head(body) = "-"
        rest == IF signed THEN Tail(body) ELSE body
    IN  IF rest = <<"n", "a", "n">> THEN Ok(NaN)
        ELSE IF rest \in {<<"i", "n", "f">>, <<"i", "n", "f", "i", "n", "i", "t", "y">>}
             THEN Ok(IF neg THEN Negate(Infinity) ELSE Infinity)
        ELSE IF IsDecimal(rest)
             THEN Ok(IF neg THEN Negate(DecimalValue(rest)) ELSE DecimalValue(rest))
        ELSE Raise("ValueError")

(***************************************************************************)
(* float(v) of lines 33 and 40.                                            *)
(***************************************************************************)
PyFloat(v) ==
    CASE v.k = "int" -> Ok(Float(v.n, 1))
      [] v.k = "bool" -> Ok(Float(v.n, 1))
      [] v.k = "real" -> Ok(Float(v.n, v.d))
      [] v.k = "bigint" -> Raise("OverflowError")
      [] v.k = "str" -> ParseFloat(v.s)
      [] OTHER -> Raise("TypeError")

\* the exceptions the try blocks of lines 34 and 42 catch
Caught == {"ValueError", "TypeError"}

(***************************************************************************)
(* An attribute mapping (a dict), or None.                                 *)
(***************************************************************************)
Props(hasHeight, height, hasLevels, levels) ==
    [k |-> "obj", hasHeight |-> hasHeight, height |-> height,
     hasLevels |-> hasLevels, levels |-> levels]
NoProps == Props(FALSE, NullV, FALSE, NullV)
NullProps == [k |-> "null", hasHeight |-> FALSE, height |-> NullV,
              hasLevels |-> FALSE, levels |-> NullV]

\* lines 37-46: the levels rule, then the default
LevelsRule(properties) ==
    LET f == PyFloat(properties.levels)
    IN  IF properties.hasLevels /\ f.ok THEN Ok(TimesLevelHeight(f.val))
        ELSE IF properties.hasLevels /\ f.err \notin Caught THEN Raise(f.err)
        ELSE Ok(Float(DefaultHeight, 1))

\* a resolver that tries the levels rule before the height attribute
get_building_height_levels_first(properties) ==
    IF properties.k = "null" THEN Raise("TypeError")
    ELSE IF properties.hasLevels /\ PyFloat(properties.levels).ok
         THEN Ok(TimesLevelHeight(PyFloat(properties.levels).val))
    ELSE IF properties.hasHeight /\ PyFloat(properties.height).ok
         THEN PyFloat(properties.height)
    ELSE Ok(Float(DefaultHeight, 1))

\* lines 23-46; 'height' in None raises TypeError
get_building_height(properties) ==
    IF properties.k = "null" THEN Raise("TypeError")
    ELSE LET f == PyFloat(properties.height)
         IN  IF properties.hasHeight /\ f.ok THEN f
             ELSE IF properties.hasHeight /\ f.err \notin Caught THEN Raise(f.err)
             ELSE LevelsRule(properties)

(***************************************************************************)
(* Coordinates: nested JSON arrays.  A node is a number or a list.         *)
(***************************************************************************)
N(n) == [t |-> "num", items |-> <<>>, v |-> n]
L(items) == [t |-> "list", items |-> items, v |-> 0]
IsList(x) == x.t = "list"

\* x[0]: TypeError on a number, IndexError on an empty list
First(x) ==
    IF ~IsList(x) THEN Raise("TypeError")
    ELSE IF x.items = <<>> THEN Raise("IndexError")
    ELSE Ok(x.items[1])

\* a BuildingPoint: the tuple appended at lines 63 and 73
Row(lon, lat, height) == <<lon, lat, height>>

RowsOk(rows) == [ok |-> TRUE, err |-> "none", rows |-> rows]
RowsRaise(err) == [ok |-> FALSE, err |-> err, rows |-> <<>>]

\* lines 59-63 and 69-73: one row per point of at least two coordinates;
\* len(point) of a number raises TypeError
RECURSIVE RingRows(_, _)
RingRows(points, height) ==
    IF points = <<>> THEN RowsOk(<<>>)
    ELSE LET point == Head(points)
             rest == RingRows(Tail(points), height)
         IN  IF ~IsList(point) THEN RowsRaise("TypeError")
             ELSE IF ~rest.ok THEN rest
             ELSE IF Len(point.items) >= 2
                  THEN RowsOk(<<Row(point.items[1], point.items[2], height)>> \o rest.rows)
             ELSE rest

\* every ring of the polygon joined, holes included
AllRings(polygon) ==
    LET Join[i \in 0..Len(polygon.items)] ==
            IF i = 0 THEN <<>>
            ELSE Join[i - 1] \o (IF IsList(polygon.items[i])
                                 THEN polygon.items[i].items ELSE <<>>)
    IN  L(Join[Len(polygon.items)])

\* lines 58 and 68: the first ring is the exterior ring
ExteriorRing(polygon) == polygon.items[1]

\* lines 66-73: the else branch, over the polygons of coords
RECURSIVE PolygonsRows(_, _)
PolygonsRows(polygons, height) ==
    IF polygons = <<>> THEN RowsOk(<<>>)
    ELSE LET polygon == Head(polygons)
             \* "if polygon and len(polygon) > 0": 0 and [] are falsy, len of
             \* another number raises
             skip == \/ IsList(polygon) /\ polygon.items = <<>>
                     \/ ~IsList(polygon) /\ polygon.v = 0
             here == IF skip THEN RowsOk(<<>>)
                     ELSE IF ~IsList(polygon) THEN RowsRaise("TypeError")
                     ELSE IF ~IsList(ExteriorRing(polygon)) THEN RowsRaise("TypeError")
                     ELSE RingRows(ExteriorRing(polygon).items, height)
         IN  IF ~here.ok THEN here
             ELSE LET rest == PolygonsRows(Tail(polygons), height)
                  IN  IF ~rest.ok THEN rest ELSE RowsOk(here.rows \o rest.rows)

\* line 56: the test that tells a simple Polygon's coordinates; it raises
\* when coords[0] or coords[0][0] cannot be indexed
IsSimplePolygon(coords) ==
    IF ~IsList(coords) THEN Raise("TypeError")
    ELSE IF Len(coords.items) = 0 THEN Ok(FALSE)
    ELSE LET c00 == First(coords.items[1])
         IN  IF ~c00.ok THEN Raise(c00.err)
             ELSE IF ~IsList(c00.val) THEN Ok(FALSE)
             ELSE LET c000 == First(c00.val)
                  IN  IF ~c000.ok THEN Raise(c000.err)
                      ELSE Ok(~IsList(c000.val))

\* lines 48-75
process_coordinates(coords, height) ==
    LET simple == IsSimplePolygon(coords)
    IN  IF ~simple.ok THEN RowsRaise(simple.err)
        ELSE IF simple.val THEN RingRows(ExteriorRing(coords).items, height)
        ELSE PolygonsRows(coords.items, height)

(***************************************************************************)
(* Features.  A geometry or a properties member is a mapping or null, and  *)
(* the key may be absent from the feature (dict.get then gives {}).        *)
(***************************************************************************)
Geom(hasType, type, hasCoords, coords) ==
    [k |-> "obj", hasType |-> hasType, type |-> type,
     hasCoords |-> hasCoords, coords |-> coords]
EmptyGeom == Geom(FALSE, "", FALSE, L(<<>>))
NullGeom == [k |-> "null", hasType |-> FALSE, type |-> "",
             hasCoords |-> FALSE, coords |-> L(<<>>)]

Feature(hasGeometry, geometry, hasProperties, properties) ==
    [hasGeometry |-> hasGeometry, geometry |-> geometry,
     hasProperties |-> hasProperties, properties |-> properties]

\* feature.get('geometry', {}) and feature.get('properties', {}), lines 89-90
GetGeometry(feature) ==
    IF feature.hasGeometry THEN feature.geometry ELSE EmptyGeom
GetProperties(feature) ==
    IF feature.hasProperties THEN feature.properties ELSE NoProps

\* geometry.get('coordinates', []), lines 99 and 101
GetCoordinates(geometry) ==
    IF geometry.hasCoords THEN geometry.coords ELSE L(<<>>)

\* "if geometry": None and the empty mapping are falsy (line 93)
Truthy(geometry) ==
    geometry.k = "obj" /\ (geometry.hasType \/ geometry.hasCoords)

\* a dispatch that takes every typed geometry for a polygon
AnyType(geometry) == geometry.hasType

\* geometry.get('type') in ['Polygon', 'MultiPolygon'], line 93
IsPolygonType(geometry) ==
    geometry.hasType /\ geometry.type \in {"Polygon", "MultiPolygon"}

\* list.extend that puts the new rows in front
ExtendFront(points, rows) == rows \o points

\* building_points.extend(rows), lines 99 and 102
Extend(points, rows) == points \o rows

Step(points, height, err, where) ==
    [points |-> points, height |-> height, err |-> err, where |-> where]

\* lines 101-102: one process_coordinates call per member polygon, each
\* extending building_points before the next member is looked at
RECURSIVE MultiPolygonStep(_, _, _)
MultiPolygonStep(members, points, height) ==
    IF members = <<>> THEN Step(points, height, "none", "none")
    ELSE LET r == process_coordinates(L(<<Head(members)>>), height)
         IN  IF ~r.ok THEN Step(points, height, r.err, "process_coordinates")
             ELSE MultiPolygonStep(Tail(members), Extend(points, r.rows), height)

\* lines 89-102: one iteration of the loop over the features; height is the
\* local variable's value before the iteration
TransformFeature(feature, points, height) ==
    LET geometry == GetGeometry(feature)
        properties == GetProperties(feature)
    IN  IF ~(Truthy(geometry) /\ IsPolygonType(geometry))
        THEN Step(points, height, "none", "none")
        ELSE LET h == get_building_height(properties)
                 coords == GetCoordinates(geometry)
             IN  IF ~h.ok THEN Step(points, height, h.err, "get_building_height")
                 ELSE IF geometry.type = "Polygon"
                 THEN LET r == process_coordinates(coords, h.val)
                      IN  IF ~r.ok THEN Step(points, h.val, r.err, "process_coordinates")
                          ELSE Step(Extend(points, r.rows), h.val, "none", "none")
                 ELSE IF geometry.type = "MultiPolygon"
                 THEN IF ~IsList(coords)
                      THEN Step(points, h.val, "TypeError", "process_geojson")
                      ELSE MultiPolygonStep(coords.items, points, h.val)
                 ELSE Step(points, h.val, "none", "none")

(***************************************************************************)
(* The input documents.  Points carry distinct coordinates, so that a row  *)
(* tells the ring and the position it came from: the exterior ring of      *)
(* member m holds the points base+1.., its holes the points from 500 on.   *)
(***************************************************************************)
Pt(i) == L(<<N(i), N(i + 1000)>>)
Pt3(i) == L(<<N(i), N(i + 1000), N(7)>>)
ShortPt(i) == L(<<N(i)>>)

\* a ring of n points, the one at position bad (if any) with one coordinate
Ring(base, n, bad) ==
    L([i \in 1..n |-> IF i = bad THEN ShortPt(base + i) ELSE Pt(base + i)])

HoleCounts == {0, 1, 2}

PolyCoords(base, n, bad, holes) ==
    L(<<Ring(base, n, bad)>> \o [j \in 1..holes |-> Ring(500 + base + 100 * j, 2, 0)])

MemberBase(m) == 10 * (m - 1)

MemberSet(m) ==
    {L(<<>>), PolyCoords(MemberBase(m), MaxRingLen, 0, 0)}
        \cup {PolyCoords(MemberBase(m), n, 0, 1) : n \in 0..MaxRingLen}

RECURSIVE MultiSet(_)
MultiSet(k) ==
    IF k = 0 THEN {<<>>}
    ELSE {Append(ms, m) : ms \in MultiSet(k - 1), m \in MemberSet(k)}

PolygonGeoms ==
    {Geom(TRUE, "Polygon", TRUE, PolyCoords(0, n, bad, holes)) :
        n \in 0..MaxRingLen, bad \in 0..MaxRingLen, holes \in HoleCounts}
    \cup {Geom(TRUE, "Polygon", TRUE, L(<<>>)),
          Geom(TRUE, "Polygon", FALSE, L(<<>>)),
          Geom(TRUE, "Polygon", TRUE, L(<<L(<<Pt3(1), Pt(2)>>)>>)),
          Geom(TRUE, "Polygon", TRUE, L(<<L(<<N(1), N(2)>>)>>)),
          Geom(TRUE, "Polygon", TRUE, L(<<L(<<Pt(1), N(2)>>)>>)),
          Geom(TRUE, "Polygon", TRUE, N(5))}

MultiPolygonGeoms ==
    {Geom(TRUE, "MultiPolygon", TRUE, L(ms)) :
        ms \in UNION {MultiSet(k) : k \in 0..MaxPolys}}
    \cup {Geom(TRUE, "MultiPolygon", FALSE, L(<<>>)),
          Geom(TRUE, "MultiPolygon", TRUE, L(<<N(0), PolyCoords(0, 1, 0, 0)>>)),
          Geom(TRUE, "MultiPolygon", TRUE, L(<<PolyCoords(0, 1, 0, 0), N(3)>>)),
          Geom(TRUE, "MultiPolygon", TRUE, N(5))}

OtherGeoms ==
    {Geom(TRUE, "Point", TRUE, L(<<N(1), N(2)>>)),
     Geom(TRUE, "LineString", TRUE, L(<<Pt(1), Pt(2)>>)),
     Geom(TRUE, "GeometryCollection", FALSE, L(<<>>)),
     Geom(FALSE, "", TRUE, PolyCoords(0, 1, 0, 0)),
     EmptyGeom}

Chars(str) ==
    CASE str = "12" -> <<"1", "2">>
      [] str = " 7 " -> <<" ", "7", " ">>
      [] str = "-2.5" -> <<"-", "2", ".", "5">>
      [] str = "12 m" -> <<"1", "2", " ", "m">>
      [] str = "nan" -> <<"n", "a", "n">>
      [] str = "4" -> <<"4">>
      [] str = "abc" -> <<"a", "b", "c">>
      [] str = "inf" -> <<"i", "n", "f">>
      [] str = "" -> <<>>

HeightValues ==
    {IntV(12), IntV(7), RealV(25, 10), BigIntV, BoolV(TRUE), NullV, ListV,
     StrV(Chars("12")), StrV(Chars(" 7 ")), StrV(Chars("-2.5")),
     StrV(Chars("12 m")), StrV(Chars("nan")), StrV(Chars(""))}

LevelsValues ==
    {IntV(4), IntV(2), RealV(25, 10), BigIntV, BoolV(FALSE), NullV,
     StrV(Chars("4")), StrV(Chars("abc")), StrV(Chars("inf"))}

PropsSet ==
    {Props(TRUE, h, TRUE, l) : h \in HeightValues, l \in LevelsValues}
    \cup {Props(TRUE, h, FALSE, NullV) : h \in HeightValues}
    \cup {Props(FALSE, NullV, TRUE, l) : l \in LevelsValues}
    \cup {NoProps, NullProps}

\* the features of the one-feature documents: every geometry under a few
\* attribute sets, and every attribute set under a few geometries
FewProps == {NoProps, NullProps, Props(TRUE, IntV(12), TRUE, IntV(2))}
FewGeoms ==
    {Geom(TRUE, "Polygon", TRUE, PolyCoords(0, MaxRingLen, 0, 1)),
     Geom(TRUE, "MultiPolygon", TRUE,
          L(<<PolyCoords(0, 1, 0, 1), PolyCoords(10, MaxRingLen, 0, 0)>>)),
     Geom(TRUE, "Point", TRUE, L(<<N(1), N(2)>>))}

FeatureSet ==
    {Feature(TRUE, g, TRUE, p) :
        g \in PolygonGeoms \cup MultiPolygonGeoms \cup OtherGeoms, p \in FewProps}
    \cup {Feature(TRUE, g, TRUE, p) : g \in FewGeoms, p \in PropsSet}
    \cup {Feature(TRUE, g, FALSE, NoProps) : g \in FewGeoms}
    \cup {Feature(hg, NullGeom, hp, p) :
            hg \in BOOLEAN, hp \in BOOLEAN, p \in FewProps}

\* the features of the longer documents
SeqFeatures ==
    {Feature(TRUE, Geom(TRUE, "Polygon", TRUE, PolyCoords(0, 2, 0, 1)),
             TRUE, Props(TRUE, IntV(12), FALSE, NullV)),
     Feature(TRUE, Geom(TRUE, "MultiPolygon", TRUE,
                        L(<<PolyCoords(20, 1, 0, 1), PolyCoords(30, 2, 0, 0)>>)),
             TRUE, Props(FALSE, NullV, TRUE, IntV(2))),
     Feature(TRUE, Geom(TRUE, "Point", TRUE, L(<<N(1), N(2)>>)), TRUE, NullProps),
     Feature(TRUE, Geom(TRUE, "Polygon", TRUE, PolyCoords(40, 0, 0, 0)), FALSE, NoProps),
     Feature(FALSE, NullGeom, TRUE, NoProps)}

RECURSIVE SeqsOf(_, _)
SeqsOf(S, n) ==
    IF n = 0 THEN {<<>>}
    ELSE {Append(fs, f) : fs \in SeqsOf(S, n - 1), f \in S}

Document(k, hasFeatures, fs) ==
    [k |-> k, hasFeatures |-> hasFeatures, features |-> fs]

\* what open() and json.load find at file_path
Documents ==
    {Document("missing", FALSE, <<>>), Document("malformed", FALSE, <<>>),
     Document("object", FALSE, <<>>), Document("object", TRUE, <<>>)}
    \cup {Document("object", TRUE, <<f>>) : f \in FeatureSet}
    \cup {Document("object", TRUE, fs) :
            fs \in UNION {SeqsOf(SeqFeatures, n) : n \in 2..MaxFeatures}}

(***************************************************************************)
(* The state of one call of process_geojson.                               *)
(***************************************************************************)
VARIABLES
    doc,              \* the input file
    has3d,            \* HAS_3D_SUPPORT
    img_path,         \* whether output_img_path is given
    csv_before,       \* the output CSV before the call
    csv,              \* the output CSV
    img,              \* the preview image: "absent", "3d" or "2d"
    pc,               \* the position in process_geojson
    features,         \* geojson_data.get('features', [])
    idx,              \* the number of features the loop has completed
    cur,              \* the index of the feature the loop took last (0: none)
    building_points,  \* the accumulated rows
    before,           \* building_points before the last iteration
    height,           \* the local variable height
    exc,              \* the exception that ended the call, or "none"
    where,            \* the call that raised it
    result            \* the returned value (-1: nothing returned)

vars == <<doc, has3d, img_path, csv_before, csv, img, pc, features, idx, cur,
          building_points, before, height, exc, where, result>>

Header == <<"longitude", "latitude", "height_meters">>

CsvFile(exists, header, rows) ==
    [exists |-> exists, header |-> header, rows |-> rows]
NoCsv == CsvFile(FALSE, <<>>, <<>>)
OldCsv == CsvFile(TRUE, Header, <<Row(N(900), N(901), Float(9, 1))>>)

Init ==
    /\ doc \in Documents
    /\ has3d \in BOOLEAN
    /\ img_path \in BOOLEAN
    /\ csv_before \in {NoCsv, OldCsv}
    /\ csv = csv_before
    /\ img = "absent"
    /\ pc = "load"
    /\ features = <<>>
    /\ idx = 0
    /\ cur = 0
    /\ building_points = <<>>
    /\ before = <<>>
    /\ height = Unset
    /\ exc = "none"
    /\ where = "none"
    /\ result = -1

Raised(e, w) == pc' = "raised" /\ exc' = e /\ where' = w

\* lines 84-85 and the features lookup of line 88
Load ==
    /\ pc = "load"
    /\ IF doc.k = "object"
       THEN /\ features' = IF doc.hasFeatures THEN doc.features ELSE <<>>
            /\ pc' = "loop"
            /\ UNCHANGED <<exc, where>>
       ELSE /\ Raised(IF doc.k = "missing" THEN "FileNotFoundError"
                      ELSE "JSONDecodeError", "load")
            /\ UNCHANGED features
    /\ UNCHANGED <<doc, has3d, img_path, csv_before, csv, img, idx, cur,
                   building_points, before, height, result>>

\* an iteration that also rewrites the CSV with the rows it has so far
TransformWriting ==
    /\ pc = "loop"
    /\ idx < Len(features)
    /\ LET r == TransformFeature(features[idx + 1], building_points, height)
       IN  /\ cur' = idx + 1
           /\ before' = building_points
           /\ building_points' = r.points
           /\ height' = r.height
           /\ csv' = CsvFile(TRUE, Header, r.points)
           /\ IF r.err = "none"
              THEN idx' = idx + 1 /\ UNCHANGED <<pc, exc, where>>
              ELSE Raised(r.err, r.where) /\ UNCHANGED idx
    /\ UNCHANGED <<doc, has3d, img_path, csv_before, img, features, result>>

\* lines 88-102: one iteration of the loop
Transform ==
    /\ pc = "loop"
    /\ idx < Len(features)
    /\ LET r == TransformFeature(features[idx + 1], building_points, height)
       IN  /\ cur' = idx + 1
           /\ before' = building_points
           /\ building_points' = r.points
           /\ height' = r.height
           /\ IF r.err = "none"
              THEN idx' = idx + 1 /\ UNCHANGED <<pc, exc, where>>
              ELSE Raised(r.err, r.where) /\ UNCHANGED idx
    /\ UNCHANGED <<doc, has3d, img_path, csv_before, csv, img, features, result>>

\* lines 105-110: open(output_csv_path, 'w') may fail (no such directory);
\* otherwise the header and every row are written
WriteCsv ==
    /\ pc = "loop"
    /\ idx = Len(features)
    /\ \E opened \in BOOLEAN :
         IF opened
         THEN /\ csv' = CsvFile(TRUE, Header, building_points)
              /\ pc' = "preview"
              /\ UNCHANGED <<exc, where>>
         ELSE /\ Raised("FileNotFoundError", "write")
              /\ UNCHANGED csv
    /\ UNCHANGED <<doc, has3d, img_path, csv_before, img, features, idx, cur,
                   building_points, before, height, result>>

\* lines 113-121: no preview, the 3D rendering under try, or the 2D
\* rendering outside any try
Preview ==
    /\ pc = "preview"
    /\ IF building_points # <<>> /\ img_path
       THEN \E rendered \in BOOLEAN :
              IF has3d
              THEN /\ img' = IF rendered THEN "3d" ELSE img
                   /\ pc' = IF rendered THEN "return" ELSE "except"
                   /\ UNCHANGED <<exc, where>>
              ELSE IF rendered
                   THEN img' = "2d" /\ pc' = "return" /\ UNCHANGED <<exc, where>>
                   ELSE Raised("Exception", "create_2d_visualization")
                        /\ UNCHANGED img
       ELSE pc' = "return" /\ UNCHANGED <<img, exc, where>>
    /\ UNCHANGED <<doc, has3d, img_path, csv_before, csv, features, idx, cur,
                   building_points, before, height, result>>

\* lines 117-119: the handler of a failed 3D rendering calls the 2D one
Fallback ==
    /\ pc = "except"
    /\ \E rendered \in BOOLEAN :
         IF rendered
         THEN img' = "2d" /\ pc' = "return" /\ UNCHANGED <<exc, where>>
         ELSE Raised("Exception", "create_2d_visualization") /\ UNCHANGED img
    /\ UNCHANGED <<doc, has3d, img_path, csv_before, csv, features, idx, cur,
                   building_points, before, height, result>>

\* line 123
Return ==
    /\ pc = "return"
    /\ result' = Len(building_points)
    /\ pc' = "returned"
    /\ UNCHANGED <<doc, has3d, img_path, csv_before, csv, img, features, idx, cur,
                   building_points, before, height, exc, where>>

Next == Load \/ Transform \/ WriteCsv \/ Preview \/ Fallback \/ Return

Spec == Init /\ [][Next]_vars

(***************************************************************************)
(* Vocabulary of the properties.                                           *)
(***************************************************************************)
Taken == cur >= 1
CurFeature == features[cur]
CurGeometry == GetGeometry(CurFeature)
CurProperties == GetProperties(CurFeature)
CurType == IF CurGeometry.k = "obj" /\ CurGeometry.hasType THEN CurGeometry.type ELSE ""

TransformCalls == {"get_building_height", "process_coordinates", "process_geojson"}
RaisedInTransform == pc = "raised" /\ where \in TransformCalls
RaisedInResolver == pc = "raised" /\ where = "get_building_height"

NewRows == Len(building_points) - Len(before)

\* a value that denotes a number: a JSON number, or a string that spells a
\* signed decimal numeral
IsNumeral(s) ==
    LET body == Strip(s)
    IN  IsDecimal(IF body # <<>> /\ Head(body) \in {"+", "-"} THEN Tail(body) ELSE body)
IsNumeric(v) == v.k \in {"int", "real", "bigint"} \/ (v.k = "str" /\ IsNumeral(v.s))

NumericHeight(p) == p.k = "obj" /\ p.hasHeight /\ IsNumeric(p.height)
NumericLevels(p) == p.k = "obj" /\ p.hasLevels /\ IsNumeric(p.levels)

IsPosition(p) == IsList(p) /\ Len(p.items) >= 2
IsRingOfPositions(r) == IsList(r) /\ \A i \in 1..Len(r.items) : IsPosition(r.items[i])
IsListOfRings(c) == IsList(c) /\ \A i \in 1..Len(c.items) : IsRingOfPositions(c.items[i])
IsPolygonCoords(c) == IsListOfRings(c) /\ Len(c.items) >= 1
IsMultiPolygonCoords(c) == IsList(c) /\ \A i \in 1..Len(c.items) : IsListOfRings(c.items[i])

\* the rows of a ring, by the data model: its positions, in order
RefRing(ring, h) ==
    IF ~IsList(ring) THEN <<>>
    ELSE LET sel == SelectSeq(ring.items, IsPosition)
         IN  [i \in 1..Len(sel) |-> Row(sel[i].items[1], sel[i].items[2], h)]

RefPolygon(polygon, h) ==
    IF IsList(polygon) /\ polygon.items # <<>> THEN RefRing(polygon.items[1], h) ELSE <<>>

RECURSIVE RefMembers(_, _)
RefMembers(members, h) ==
    IF members = <<>> THEN <<>>
    ELSE RefPolygon(Head(members), h) \o RefMembers(Tail(members), h)

\* the rows of a feature, by the data model
RefRows(feature) ==
    LET g == GetGeometry(feature)
        h == get_building_height(GetProperties(feature)).val
        c == GetCoordinates(g)
    IN  IF g.k = "obj" /\ g.hasType /\ g.type = "Polygon" THEN RefPolygon(c, h)
        ELSE IF g.k = "obj" /\ g.hasType /\ g.type = "MultiPolygon" /\ IsList(c)
             THEN RefMembers(c.items, h)
        ELSE <<>>

RECURSIVE RefConcat(_, _)
RefConcat(fs, n) ==
    IF n = 0 THEN <<>> ELSE RefConcat(fs, n - 1) \o RefRows(fs[n])

IsPrefix(a, b) == Len(a) <= Len(b) /\ SubSeq(b, 1, Len(a)) = a

\* the positions of the rings after the first
HolePositions(polygon) ==
    IF ~IsList(polygon) THEN {}
    ELSE UNION {IF IsList(polygon.items[r])
                THEN {polygon.items[r].items[i] : i \in 1..Len(polygon.items[r].items)}
                ELSE {} : r \in 2..Len(polygon.items)}

InteriorPositions(feature) ==
    LET g == GetGeometry(feature)
        c == GetCoordinates(g)
    IN  IF g.k = "obj" /\ g.hasType /\ g.type = "Polygon" THEN HolePositions(c)
        ELSE IF g.k = "obj" /\ g.hasType /\ g.type = "MultiPolygon" /\ IsList(c)
             THEN UNION {HolePositions(c.items[m]) : m \in 1..Len(c.items)}
        ELSE {}

AllInteriorPositions ==
    {p \in UNION {InteriorPositions(features[f]) : f \in 1..Len(features)} : IsPosition(p)}

FromHole(row) ==
    \E p \in AllInteriorPositions : row[1] = p.items[1] /\ row[2] = p.items[2]

(***************************************************************************)
(* C1: when 'height' holds a numeric value h, get_building_height gives    *)
(* float(h) whatever 'building:levels' holds: the resolved height is       *)
(* float(h), and where float(h) itself raises (an int beyond the float     *)
(* range) the resolver raises that same error.                             *)
(***************************************************************************)
C1_HeightWins ==
    (Taken /\ Truthy(CurGeometry) /\ CurType \in {"Polygon", "MultiPolygon"}
       /\ NumericHeight(CurProperties))
    => LET f == PyFloat(CurProperties.height)
       IN  IF f.ok THEN ~RaisedInResolver /\ height = f.val
           ELSE RaisedInResolver /\ exc = f.err

C1_Witness ==
    /\ Taken /\ pc = "returned" /\ CurType = "Polygon"
    /\ CurProperties = Props(TRUE, IntV(12), TRUE, IntV(2))
    /\ height = Float(12, 1)

(***************************************************************************)
(* C2: a missing or non-numeric value falls through and never raises:      *)
(* without a numeric 'height', a numeric 'building:levels' n gives n * 3.0 *)
(* and anything else gives the default 3.0.                                *)
(***************************************************************************)
C2_FallThrough ==
    (Taken /\ Truthy(CurGeometry) /\ CurType \in {"Polygon", "MultiPolygon"}
       /\ CurProperties.k = "obj" /\ ~NumericHeight(CurProperties))
    => /\ ~RaisedInResolver
       /\ IF NumericLevels(CurProperties)
          THEN /\ PyFloat(CurProperties.levels).ok
               /\ height = TimesLevelHeight(PyFloat(CurProperties.levels).val)
          ELSE height = Float(DefaultHeight, 1)

(***************************************************************************)
(* C3: a Polygon whose exterior ring has N points adds exactly N rows, all *)
(* with the height resolved for the feature.                               *)
(***************************************************************************)
C3_PolygonRows ==
    (Taken /\ CurType = "Polygon" /\ CurGeometry.hasCoords
       /\ IsPolygonCoords(CurGeometry.coords)
       /\ get_building_height(CurProperties).ok)
    => /\ ~RaisedInTransform
       /\ NewRows = Len(CurGeometry.coords.items[1].items)
       /\ \A j \in (Len(before) + 1)..Len(building_points) :
             building_points[j][3] = get_building_height(CurProperties).val

RECURSIVE ExteriorSum(_)
ExteriorSum(members) ==
    IF members = <<>> THEN 0
    ELSE (IF Head(members).items = <<>> THEN 0
          ELSE Len(Head(members).items[1].items)) + ExteriorSum(Tail(members))

(***************************************************************************)
(* C4: a MultiPolygon with exterior rings R1..Rk adds sum(|Ri|) rows, for  *)
(* every k >= 0 and every ring length, empty member polygons included.     *)
(***************************************************************************)
C4_MultiPolygonRows ==
    (Taken /\ CurType = "MultiPolygon" /\ CurGeometry.hasCoords
       /\ IsMultiPolygonCoords(CurGeometry.coords)
       /\ get_building_height(CurProperties).ok)
    => /\ ~RaisedInTransform
       /\ NewRows = ExteriorSum(CurGeometry.coords.items)

(***************************************************************************)
(* C5: a feature whose geometry type is neither Polygon nor MultiPolygon   *)
(* leaves the accumulated points as they were and raises nothing.          *)
(***************************************************************************)
C5_OtherTypesSkipped ==
    (Taken /\ CurGeometry.k = "obj" /\ CurType \notin {"Polygon", "MultiPolygon"})
    => building_points = before /\ ~RaisedInTransform

C5_Witness ==
    /\ Taken /\ pc = "returned" /\ cur = 2
    /\ CurType = "Point" /\ CurProperties = NullProps
    /\ building_points = before /\ Len(building_points) >= 2

HasHoles(feature) == InteriorPositions(feature) # {}

(***************************************************************************)
(* C6: holes are ignored: no row of the accumulated points or of the       *)
(* written CSV comes from a ring after the first, and a feature with holes *)
(* that the loop completed added as many rows as its exterior rings have   *)
(* points.                                                                 *)
(***************************************************************************)
C6_HolesIgnored ==
    /\ \A j \in 1..Len(building_points) : ~FromHole(building_points[j])
    /\ \A j \in 1..Len(csv.rows) : ~FromHole(csv.rows[j])
    /\ (Taken /\ ~RaisedInTransform /\ HasHoles(CurFeature))
       => NewRows = Len(RefRows(CurFeature))

C6_Witness ==
    /\ Taken /\ pc = "returned" /\ CurType = "MultiPolygon"
    /\ HasHoles(CurFeature) /\ NewRows >= 2
    /\ csv.rows = building_points

MissingGeometry(feature) == ~feature.hasGeometry \/ feature.geometry.k = "null"
MissingProperties(feature) == ~feature.hasProperties \/ feature.properties.k = "null"

(***************************************************************************)
(* C7: a missing geometry or missing properties member (absent, or null)   *)
(* is no error: missing geometry adds no row, a polygon with missing       *)
(* properties gets the default height 3.0, and nothing is raised.          *)
(***************************************************************************)
C7_MissingIsDefaulted ==
    Taken =>
      /\ MissingGeometry(CurFeature)
         => building_points = before /\ ~RaisedInTransform
      /\ (MissingProperties(CurFeature) /\ CurType \in {"Polygon", "MultiPolygon"})
         => ~RaisedInResolver /\ height = Float(DefaultHeight, 1)

(***************************************************************************)
(* C8: a failure of a rendering call never ends the call with an           *)
(* exception, whichever renderer fails.                                    *)
(***************************************************************************)
C8_RenderFailureNonFatal ==
    pc = "raised" => where # "create_2d_visualization"

(***************************************************************************)
(* C9: the accumulated points follow feature order, then member order,     *)
(* then ring-point order: they are the concatenation of the rows of the    *)
(* features the loop has completed, and an iteration only appends.         *)
(***************************************************************************)
C9_OrderKept ==
    /\ IsPrefix(before, building_points)
    /\ ~RaisedInTransform => building_points = RefConcat(features, idx)
    /\ RaisedInTransform => before = RefConcat(features, idx)

C9_Witness ==
    /\ pc = "returned" /\ idx = 2 /\ cur = 2
    /\ CurType = "MultiPolygon"
    /\ Len(before) >= 2 /\ NewRows >= 3

Written == csv = CsvFile(TRUE, Header, building_points)

(***************************************************************************)
(* C10: load, transform, write, preview, in that order: the CSV is as it   *)
(* was until every feature is transformed, so a failed load or transform   *)
(* leaves it alone; once written it holds the header and one row per       *)
(* accumulated point, the count returned; rendering comes after and never  *)
(* changes it.                                                             *)
(***************************************************************************)
C10_PipelineOrder ==
    /\ pc \in {"load", "loop"} => csv = csv_before
    /\ (pc = "raised" /\ where \in TransformCalls \cup {"load"}) => csv = csv_before
    /\ pc \in {"preview", "except", "return", "returned"}
       => Written /\ idx = Len(features)
    /\ (pc = "raised" /\ where = "create_2d_visualization") => Written
    /\ img # "absent" => Written
    /\ pc = "returned" => result = Len(building_points) /\ result = Len(csv.rows)

C10_Witness ==
    /\ pc = "raised" /\ where = "create_2d_visualization"
    /\ csv_before = OldCsv /\ csv # csv_before
    /\ Len(csv.rows) >= 2 /\ has3d

====
